---- MODULE Spec2Model ----
(***************************************************************************)
(* A model of frontpage.py: the page taxonomy (SinglePage, FrontPage,      *)
(* CollectionPage, PostPage), their load and write methods, and the        *)
(* two-phase build of build_site.                                          *)
(*                                                                         *)
(* Strings that the code takes apart (file names, page names, paths) are   *)
(* sequences of one-character strings, so that endswith, splitext and      *)
(* concatenation are computed and not assumed.  A path is a sequence of    *)
(* components.  Python's None is the empty sequence, and a field that is   *)
(* set holds a one-element sequence (a date-time holds <<year, month,      *)
(* day>>).                                                                 *)
(***************************************************************************)
EXTENDS Integers, Sequences, FiniteSets, TLC

\* ------------------------------------------------------------------ bounds

\* The longest declared page list `pages` handed to build_site.
MaxPages == 2

\* The largest size of an input: the declared pages and the Markdown files of the
\* collection directories, counted together.
MaxInput == 4

\* ------------------------------------------------------------- the inputs

None == <<>>

Some(x) == <<x>>

MdExt == <<".", "m", "d">>

\* The names a declared top-level page may have.
Blog == <<"b", "l", "o", "g">>

Me == <<"m", "e">>

PageNames == {Blog, Me}

\* The name FrontPage.__init__ forces.
HomeName == <<"h", "o", "m", "e">>

HomeTitle == <<"H", "o", "m", "e">>

\* The title every declared page is given, and the one a post's metadata sets.
DeclTitle == <<"D", "e", "c", "l">>

MetaTitle == <<"M", "e", "t", "a">>

\* The stems of the Markdown files a collection directory may hold, in the
\* order in which a directory of k files holds the first k of them.
PostStems == << <<"a">>, <<"b">>, <<"c">>, <<"d">> >>

\* Metadata blocks of a post file, each a sequence of <<key, value>> pairs in
\* file order.  A date value "mm-dd-yyyy" is the sequence of its "-" separated
\* fields.
MetaEarly == << <<"date", <<12, 31, 2020>> >> >>

MetaLate == << <<"title", MetaTitle>>, <<"date", <<1, 5, 2024>> >>,
               <<"hidden", "True">> >>

MetaNoDate == << <<"subtitle", <<"S", "u", "b">> >>, <<"hidden", "yes">>, <<"tags", <<"x">> >> >>

MetaBadDate == << <<"title", MetaTitle>>, <<"date", <<2, 30, 2024>> >> >>

Metas == {MetaEarly, MetaLate, MetaNoDate, MetaBadDate}

\* Directory entries: a name, and whether os.path.isfile holds of it.
Entry(fname, isfile) == [fname |-> fname, isfile |-> isfile]

\* What else a collection directory may hold beside its Markdown files: a text
\* file and a sub-directory whose name ends in ".md", or a file named ".md".
NoiseFiles == { Entry(<<"n", ".", "t", "x", "t">>, TRUE),
                Entry(<<"s", "u", "b", ".", "m", "d">>, FALSE) }

DotFile == { Entry(MdExt, TRUE) }

\* The first k Markdown files.
MdEntries(k) == { Entry(PostStems[n] \o MdExt, TRUE) : n \in 1..k }

\* What os.listdir may find at a collection's source path when the input may
\* hold `budget` more Markdown files: nothing there, an empty directory, or a
\* directory of up to `budget` Markdown files, beside the text file and the
\* sub-directory or beside a file named ".md".
Dir(state, entries) == [state |-> state, entries |-> entries]

Unread == Dir("unread", {})

Absent == Dir("absent", {})

DirChoices(budget) ==
    {Absent, Dir("dir", {})}
    \cup { Dir("dir", MdEntries(k) \cup NoiseFiles) : k \in 0..budget }
    \cup { Dir("dir", MdEntries(k - 1) \cup DotFile) : k \in 2..budget }

\* What open() may find at a path: no file, or a file with a metadata block.
File(path, exists, meta) == [path |-> path, exists |-> exists, meta |-> meta]

\* ------------------------------------------------------- library functions

\* str.endswith.
EndsWith(s, suffix) ==
    /\ Len(s) >= Len(suffix)
    /\ SubSeq(s, Len(s) - Len(suffix) + 1, Len(s)) = suffix

\* os.path.join of a path's components, as one string.
RECURSIVE JoinPath(_)
JoinPath(path) ==
    IF path = <<>> THEN <<>>
    ELSE IF Len(path) = 1 THEN path[1]
    ELSE path[1] \o <<"/">> \o JoinPath(Tail(path))

\* The index of the last "." of s, 0 when it has none.
LastDot(s) ==
    LET dots == {k \in 1..Len(s) : s[k] = "."}
    IN  IF dots = {} THEN 0 ELSE CHOOSE k \in dots : \A l \in dots : l <= k

\* os.path.splitext of a file name: the extension starts at the last dot,
\* unless only dots come before it.
SplitExt(s) ==
    LET d == LastDot(s)
    IN  IF d > 0 /\ \E k \in 1..(d - 1) : s[k] # "."
        THEN <<SubSeq(s, 1, d - 1), SubSeq(s, d, Len(s))>>
        ELSE <<s, <<>>>>

\* hashlib.sha1(...).hexdigest(): an injective tag of its argument.
Sha1(s) == <<"sha1">> \o s

\* str.lower, on the values a `hidden` key takes.
Lower(s) ==
    CASE s = "True" -> "true"
      [] s = "TRUE" -> "true"
      [] OTHER -> s

IsLeap(y) == y % 4 = 0 /\ (y % 100 # 0 \/ y % 400 = 0)

DaysIn(m, y) ==
    CASE m \in {4, 6, 9, 11} -> 30
      [] m = 2 -> IF IsLeap(y) THEN 29 ELSE 28
      [] OTHER -> 31

\* datetime.datetime.strptime(date, "%m-%d-%Y"): the date-time <<year, month,
\* day>>, or None where Python raises ValueError.
Strptime(date) ==
    IF /\ Len(date) = 3
       /\ date[1] \in 1..12
       /\ date[3] \in 1..9999
       /\ date[2] \in 1..DaysIn(date[1], date[3])
    THEN <<date[3], date[1], date[2]>>
    ELSE None

MonthAbbr ==
    <<"Jan", "Feb", "Mar", "Apr", "May", "Jun",
      "Jul", "Aug", "Sep", "Oct", "Nov", "Dec">>

\* datetime.strftime("%b %-d, %Y"): abbreviated month, unpadded day, year.
Strftime(dt) == <<MonthAbbr[dt[2]], dt[3], dt[1]>>

\* datetime.__lt__ on two date-times.
DtLess(a, b) ==
    \/ a[1] < b[1]
    \/ a[1] = b[1] /\ a[2] < b[2]
    \/ a[1] = b[1] /\ a[2] = b[2] /\ a[3] < b[3]

\* ------------------------------------------------------------ the pages

\* Page.__init__ and the class attributes of Page and PostPage.
Page(type_name, name, title, hidden) ==
    [ type     |-> type_name,
      name     |-> name,
      title    |-> title,
      parent   |-> None,
      src      |-> None,
      target   |-> None,
      content  |-> None,
      output   |-> None,
      hidden   |-> hidden,
      posts    |-> <<>>,
      datetime |-> None,
      date     |-> None,
      subtitle |-> None,
      uuid     |-> None ]

\* SinglePage.__init__.  src and target are paths below input_dir and
\* output_dir, held as Some(sequence of components).
SinglePage(name, title, hidden) ==
    [ Page("SinglePage", name, title, hidden) EXCEPT
        !.src    = Some(<<name \o MdExt>>),
        !.target = Some(<<name>>) ]

\* A FrontPage that keeps the target SinglePage.__init__ gave it.
FrontPage_named(name, title) ==
    [ SinglePage(name, title, FALSE) EXCEPT
        !.type   = "FrontPage",
        !.name   = HomeName,
        !.title  = HomeTitle ]

\* FrontPage.__init__: src keeps the declared name, target is the empty path.
FrontPage(name, title) ==
    [ SinglePage(name, title, FALSE) EXCEPT
        !.type   = "FrontPage",
        !.name   = HomeName,
        !.title  = HomeTitle,
        !.target = Some(<<>>) ]

\* CollectionPage.__init__.
CollectionPage(name, title, hidden) ==
    [ Page("CollectionPage", name, title, hidden) EXCEPT
        !.src    = Some(<<name>>),
        !.target = Some(<<name>>) ]

\* PostPage.__init__, for a parent that is the CollectionPage `parent`, the
\* pid-th page of the declared list.  Any other parent raises.
PostPage(name, title, pid, parent) ==
    IF parent.type # "CollectionPage" THEN None
    ELSE Some([ Page("PostPage", name, title, FALSE) EXCEPT
                  !.parent = Some(pid),
                  !.src    = Some(<<parent.name, name \o MdExt>>),
                  !.uuid   = Some(Sha1(name)),
                  !.target = Some(<<parent.name, Sha1(name)>>) ])

\* Page.type_name.
TypeName(p) == p.type

\* page_template.render and collection_template.render: what the template is
\* handed.
Render(template, navs, p, posts) ==
    [ template |-> template,
      navs     |-> navs,
      name     |-> p.name,
      title    |-> p.title,
      content  |-> p.content,
      posts    |-> [k \in 1..Len(posts) |->
                      [ name     |-> posts[k].name,
                        title    |-> posts[k].title,
                        date     |-> posts[k].date,
                        datetime |-> posts[k].datetime,
                        target   |-> posts[k].target ]] ]

\* A SinglePage.load that renders the page and does not keep its content.
SinglePageLoaded_nocontent(p, navs) ==
    [p EXCEPT !.output = Some(Render("page.html", navs, p, <<>>))]

\* The body of SinglePage.load once its source is open.
SinglePageLoaded(p, navs) ==
    LET q == [p EXCEPT !.content = Some([html |-> p.src, metadata |-> <<>>])]
    IN  [q EXCEPT !.output = Some(Render("page.html", navs, q, <<>>))]

\* The loop of PostPage.load over the metadata keys, in file order: the page
\* with the keys applied, and whether strptime raised.
RECURSIVE ApplyMetadata(_, _)
ApplyMetadata(p, meta) ==
    IF meta = <<>> THEN [raised |-> FALSE, page |-> p]
    ELSE
      LET k == meta[1][1]
          v == meta[1][2]
      IN  CASE k = "title" ->
                 ApplyMetadata([p EXCEPT !.title = v], Tail(meta))
            [] k = "subtitle" ->
                 ApplyMetadata([p EXCEPT !.subtitle = Some(v)], Tail(meta))
            [] k = "date" ->
                 IF Strptime(v) = None
                 THEN [raised |-> TRUE, page |-> p]
                 ELSE ApplyMetadata([p EXCEPT !.datetime = Strptime(v),
                                              !.date = Some(Strftime(Strptime(v)))],
                                    Tail(meta))
            [] k = "hidden" ->
                 IF Lower(v) = "true"
                 THEN ApplyMetadata([p EXCEPT !.hidden = TRUE], Tail(meta))
                 ELSE ApplyMetadata(p, Tail(meta))
            [] OTHER -> ApplyMetadata(p, Tail(meta))

\* The body of PostPage.load once its source, with metadata block `meta`, is
\* open.
PostPageLoaded(p, navs, meta) ==
    LET r == ApplyMetadata(p, meta)
        q == [r.page EXCEPT !.content = Some([html |-> p.src, metadata |-> meta])]
    IN  IF r.raised THEN r
        ELSE [raised |-> FALSE,
              page |-> [q EXCEPT !.output = Some(Render("page.html", navs, q, <<>>))]]

\* A sort that puts a post before the posts of its own date-time: ascending
\* order reversed.
InsertPost_unstable(sorted, p) ==
    LET notmore == {n \in 1..Len(sorted) : ~DtLess(p.datetime, sorted[n].datetime)}
        at      == IF notmore = {} THEN Len(sorted) + 1
                   ELSE CHOOSE n \in notmore : \A m \in notmore : n <= m
    IN  SubSeq(sorted, 1, at - 1) \o <<p>> \o SubSeq(sorted, at, Len(sorted))

\* list.sort(key=lambda x: x.datetime, reverse=True), as a stable insertion:
\* a post goes before the first post whose date-time is less than its own.
\* Comparing None with anything raises TypeError; the first post of a list is
\* compared as soon as a second one is inserted.
InsertPost(sorted, p) ==
    LET less == {n \in 1..Len(sorted) : DtLess(sorted[n].datetime, p.datetime)}
        at   == IF less = {} THEN Len(sorted) + 1
                ELSE CHOOSE n \in less : \A m \in less : n <= m
    IN  SubSeq(sorted, 1, at - 1) \o <<p>> \o SubSeq(sorted, at, Len(sorted))

RECURSIVE SortInto(_, _)
SortInto(sorted, rest) ==
    IF rest = <<>> THEN [raised |-> FALSE, posts |-> sorted]
    ELSE IF /\ sorted # <<>>
            /\ \/ rest[1].datetime = None
               \/ \E n \in 1..Len(sorted) : sorted[n].datetime = None
         THEN [raised |-> TRUE, posts |-> sorted \o rest]
         ELSE SortInto(InsertPost(sorted, rest[1]), Tail(rest))

SortPosts(posts) == SortInto(<<>>, posts)

\* --------------------------------------------------------------- the state

VARIABLES
    pages,   \* the declared list handed to build_site, each page with its posts
    navs,    \* build_site's navigation list
    pc,      \* where build_site is: "navs", "skeleton", "load", "write", "done", "failed"
    i,       \* the index of the page the current loop of build_site is at
    j,       \* 0 before the page's method is entered, else the index in its loop over posts
    files,   \* the files below input_dir that the build has opened, as it found them
    dirs,    \* what the build has seen of the directory <name> below input_dir
    found,   \* per page, the names of its posts in the order os.listdir gave them
    out,     \* the paths below output_dir that hold an index.html
    log,     \* the calls of load ("load") and their returns ("loaded"), the calls
             \* of write ("write") and the files written ("emit"), in order
    error    \* the exception that ended the build, or None

vars == <<pages, navs, pc, i, j, files, dirs, found, out, log, error>>

\* The pages a configuration may declare: single pages and collections of
\* either name, shown or (one of each) hidden, and a front page.
Decls ==
    { SinglePage(Blog, DeclTitle, FALSE), SinglePage(Me, DeclTitle, FALSE),
      SinglePage(Me, DeclTitle, TRUE),
      FrontPage(Me, DeclTitle),
      CollectionPage(Blog, DeclTitle, FALSE), CollectionPage(Blog, DeclTitle, TRUE),
      CollectionPage(Me, DeclTitle, FALSE) }

\* An output tree left by an earlier build.
StaleOut == { <<>>, << <<"o", "l", "d">> >> }

Init ==
    /\ pages \in UNION { [1..n -> Decls] : n \in 0..MaxPages }
    /\ navs = <<>>
    /\ pc = "navs"
    /\ i = 0
    /\ j = 0
    /\ files = {}
    /\ dirs = [s \in {<<n>> : n \in PageNames} |-> Unread]
    /\ found = [n \in 1..Len(pages) |-> <<>>]
    /\ out \in {{}, StaleOut}
    /\ log = <<>>
    /\ error = None

\* Entries of the log.
Event(op, top, post, path) == [op |-> op, top |-> top, post |-> post, path |-> path]

\* A navigation list with an entry for every page, hidden or not.
RECURSIVE BuildNavs_all(_)
BuildNavs_all(ps) ==
    IF ps = <<>> THEN <<>>
    ELSE << [name |-> ps[1].name, title |-> ps[1].title,
             type_name |-> TypeName(ps[1])] >>
         \o BuildNavs_all(Tail(ps))

\* The navigation list of build_site: one entry per page that is not hidden.
RECURSIVE BuildNavs(_)
BuildNavs(ps) ==
    IF ps = <<>> THEN <<>>
    ELSE (IF ps[1].hidden THEN <<>>
          ELSE << [name |-> ps[1].name, title |-> ps[1].title,
                   type_name |-> TypeName(ps[1])] >>)
         \o BuildNavs(Tail(ps))

\* build_site, line 186.
ComputeNavs ==
    /\ pc = "navs"
    /\ navs' = BuildNavs(pages)
    /\ pc' = "skeleton"
    /\ UNCHANGED <<pages, i, j, files, dirs, found, out, log, error>>

\* build_skeleton: the old tree is removed and the static files are copied.
\* Removing may fail silently and copying may raise.
BuildSkeleton ==
    /\ pc = "skeleton"
    /\ \E res \in {"ok", "rmtree failed", "copy failed"} :
         /\ out' = IF res = "rmtree failed" THEN out ELSE {}
         /\ IF res = "ok" \/ (res = "rmtree failed" /\ out = {})
            THEN /\ pc' = IF pages = <<>> THEN "done" ELSE "load"
                 /\ i' = IF pages = <<>> THEN 0 ELSE 1
                 /\ error' = None
            ELSE /\ pc' = "failed"
                 /\ i' = i
                 /\ error' = Some("OSError")
    /\ UNCHANGED <<pages, navs, j, files, dirs, found, log>>

\* An exception that the loop of build_site swallows: it goes on to the next
\* page.
Raise_swallowed(exc) ==
    /\ error' = Some(exc)
    /\ j' = 0
    /\ IF i < Len(pages)
       THEN /\ i' = i + 1
            /\ pc' = pc
       ELSE /\ i' = 1
            /\ pc' = IF pc = "load" THEN "write" ELSE "done"

\* An exception leaves build_site.
Raise(exc) ==
    /\ pc' = "failed"
    /\ error' = Some(exc)
    /\ UNCHANGED <<i, j>>

\* A build_site with one loop, which writes each page as soon as it is loaded.
LoadReturns_interleaved ==
    /\ j' = 0
    /\ error' = None
    /\ i' = i
    /\ pc' = "write"

\* The first loop of build_site goes on to the next page, or the second starts.
LoadReturns ==
    /\ j' = 0
    /\ error' = None
    /\ IF i < Len(pages)
       THEN /\ i' = i + 1
            /\ pc' = "load"
       ELSE /\ i' = 1
            /\ pc' = "write"

\* open(src_path, "r"): the file as the build found it before, or else any of
\* the files that may be there, with a metadata block of `metas`.
Open(path, metas) ==
    IF \E f \in files : f.path = path
    THEN {f \in files : f.path = path}
    ELSE {File(path, FALSE, <<>>)} \cup {File(path, TRUE, m) : m \in metas}

\* The Markdown files of the collection directories the build has listed.
Listed ==
    LET md(at) == {e \in dirs[at].entries : e.isfile /\ EndsWith(e.fname, MdExt)}
        RECURSIVE Sum(_)
        Sum(S) == IF S = {} THEN 0
                  ELSE LET at == CHOOSE x \in S : TRUE
                       IN  Cardinality(md(at)) + Sum(S \ {at})
    IN  Sum(DOMAIN dirs)

\* SinglePage.load, of a SinglePage or a FrontPage.
SinglePageLoad ==
    /\ pc = "load"
    /\ j = 0
    /\ pages[i].type \in {"SinglePage", "FrontPage"}
    /\ LET p == pages[i]
       IN  \E f \in Open(p.src[1], {<<>>}) :
             /\ files' = files \cup {f}
             /\ IF f.exists
                THEN /\ pages' = [pages EXCEPT ![i] = SinglePageLoaded(p, navs)]
                     /\ log' = log \o <<Event("load", i, None, None),
                                        Event("loaded", i, None, None)>>
                     /\ LoadReturns
                ELSE /\ pages' = pages
                     /\ log' = Append(log, Event("load", i, None, None))
                     /\ Raise("FileNotFoundError")
    /\ UNCHANGED <<navs, dirs, found, out>>

\* The orders in which os.listdir may give the entries of a directory.
RECURSIVE ListDir(_)
ListDir(entries) ==
    IF entries = {} THEN {<<>>}
    ELSE UNION { { <<e>> \o rest : rest \in ListDir(entries \ {e}) } : e \in entries }

\* A first loop that does not ask os.path.isfile.
RECURSIVE Discovered_anyentry(_, _, _)
Discovered_anyentry(order, pid, parent) ==
    IF order = <<>> THEN <<>>
    ELSE
      LET filename == order[1].fname
          path     == parent.src[1] \o <<filename>>
          name     == SplitExt(filename)[1]
      IN  (IF EndsWith(JoinPath(path), MdExt)
           THEN PostPage(name, name, pid, parent)
           ELSE <<>>)
          \o Discovered_anyentry(Tail(order), pid, parent)

\* The first loop of CollectionPage.load over the listing `order`: the posts
\* it appends for the collection `parent`, the pid-th declared page.
RECURSIVE Discovered(_, _, _)
Discovered(order, pid, parent) ==
    IF order = <<>> THEN <<>>
    ELSE
      LET filename == order[1].fname
          path     == parent.src[1] \o <<filename>>
          name     == SplitExt(filename)[1]
      IN  (IF order[1].isfile /\ EndsWith(JoinPath(path), MdExt)
           THEN PostPage(name, name, pid, parent)
           ELSE <<>>)
          \o Discovered(Tail(order), pid, parent)

\* CollectionPage.load up to its second loop: the directory is listed and a
\* PostPage is appended for each Markdown file.
CollectionDiscover ==
    /\ pc = "load"
    /\ j = 0
    /\ pages[i].type = "CollectionPage"
    /\ LET p  == pages[i]
           at == p.src[1]
       IN  \E d \in (IF dirs[at] = Unread
                     THEN DirChoices(MaxInput - Len(pages) - Listed)
                     ELSE {dirs[at]}) :
             /\ dirs' = [dirs EXCEPT ![at] = d]
             /\ log' = Append(log, Event("load", i, None, None))
             /\ IF d.state = "dir"
                THEN \E order \in ListDir(d.entries) :
                       LET new == Discovered(order, i, p)
                       IN  /\ pages' = [pages EXCEPT ![i].posts = p.posts \o new]
                           /\ found' = [found EXCEPT
                                          ![i] = [k \in 1..Len(new) |-> new[k].name]]
                           /\ j' = 1
                           /\ UNCHANGED <<pc, i, error>>
                ELSE /\ Raise("FileNotFoundError")
                     /\ UNCHANGED <<pages, found>>
    /\ UNCHANGED <<navs, files, out>>

\* Whether the directory the build listed holds a file at the path `src` of a
\* post.
SourceAt(src) ==
    \E e \in dirs[SubSeq(src, 1, 1)].entries : e.fname = src[2] /\ e.isfile

\* PostPage.load of the j-th post, in the second loop of CollectionPage.load.
PostPageLoad ==
    /\ pc = "load"
    /\ j >= 1
    /\ j <= Len(pages[i].posts)
    /\ LET post == pages[i].posts[j]
       IN  \E f \in { g \in Open(post.src[1], Metas) :
                        g.exists = SourceAt(post.src[1]) } :
             /\ files' = files \cup {f}
             /\ IF ~f.exists
                THEN /\ Raise("FileNotFoundError")
                     /\ pages' = pages
                     /\ log' = Append(log, Event("load", i, Some(post.name), None))
                ELSE LET r == PostPageLoaded(post, navs, f.meta)
                     IN  IF r.raised
                         THEN /\ Raise("ValueError")
                              /\ pages' = [pages EXCEPT ![i].posts[j] = r.page]
                              /\ log' = Append(log,
                                           Event("load", i, Some(post.name), None))
                         ELSE /\ pages' = [pages EXCEPT ![i].posts[j] = r.page]
                              /\ log' = log \o
                                     <<Event("load", i, Some(post.name), None),
                                       Event("loaded", i, Some(post.name), None)>>
                              /\ j' = j + 1
                              /\ UNCHANGED <<pc, i, error>>
    /\ UNCHANGED <<navs, dirs, found, out>>

\* The end of CollectionPage.load: the posts are sorted and the collection is
\* rendered.
CollectionSortRender ==
    /\ pc = "load"
    /\ j >= 1
    /\ j > Len(pages[i].posts)
    /\ LET p == pages[i]
           r == SortPosts(p.posts)
           q == [p EXCEPT !.posts = r.posts]
       IN  IF r.raised
           THEN /\ Raise("TypeError")
                /\ pages' = pages
                /\ log' = log
           ELSE /\ pages' = [pages EXCEPT ![i] =
                      [q EXCEPT !.output =
                          Some(Render("collection.html", navs, q, q.posts))]]
                /\ log' = Append(log, Event("loaded", i, None, None))
                /\ LoadReturns
    /\ UNCHANGED <<navs, files, dirs, found, out>>

\* The second loop of build_site goes on to the next page, or build_site
\* returns.
WriteReturns ==
    /\ j' = 0
    /\ error' = None
    /\ IF i < Len(pages)
       THEN /\ i' = i + 1
            /\ pc' = "write"
       ELSE /\ i' = i
            /\ pc' = "done"

\* Page.write of page p: the directory of its target is made and its
\* index.html is written.  Writing an output that is None raises, after the
\* file is created.
PageWrite(p, top, post) ==
    /\ out' = out \cup {p.target[1]}
    /\ log' = log \o (IF post = None /\ p.type # "CollectionPage"
                      THEN <<Event("write", top, post, None)>> ELSE <<>>)
                  \o (IF post # None
                      THEN <<Event("write", top, post, None)>> ELSE <<>>)
                  \o (IF p.output # None
                      THEN <<Event("emit", top, post, p.target)>> ELSE <<>>)

\* Page.write, of a SinglePage or a FrontPage, from the second loop of
\* build_site.
SinglePageWrite ==
    /\ pc = "write"
    /\ j = 0
    /\ pages[i].type \in {"SinglePage", "FrontPage"}
    /\ PageWrite(pages[i], i, None)
    /\ IF pages[i].output = None THEN Raise("TypeError") ELSE WriteReturns
    /\ UNCHANGED <<pages, navs, files, dirs, found>>

\* A CollectionPage.write that is Page.write: it does not write the posts.
CollectionWriteBegin_nocascade ==
    /\ pc = "write"
    /\ j = 0
    /\ pages[i].type = "CollectionPage"
    /\ log' = Append(log, Event("write", i, None, None))
    /\ j' = Len(pages[i].posts) + 1
    /\ UNCHANGED <<pages, navs, pc, i, files, dirs, found, out, error>>

\* CollectionPage.write is entered.
CollectionWriteBegin ==
    /\ pc = "write"
    /\ j = 0
    /\ pages[i].type = "CollectionPage"
    /\ log' = Append(log, Event("write", i, None, None))
    /\ j' = 1
    /\ UNCHANGED <<pages, navs, pc, i, files, dirs, found, out, error>>

\* The loop of CollectionPage.write: Page.write of the j-th post.
PostPageWrite ==
    /\ pc = "write"
    /\ j >= 1
    /\ j <= Len(pages[i].posts)
    /\ PageWrite(pages[i].posts[j], i, Some(pages[i].posts[j].name))
    /\ IF pages[i].posts[j].output = None
       THEN Raise("TypeError")
       ELSE /\ j' = j + 1
            /\ UNCHANGED <<pc, i, error>>
    /\ UNCHANGED <<pages, navs, files, dirs, found>>

\* The end of CollectionPage.write: super().write of the collection itself.
CollectionWriteOwn ==
    /\ pc = "write"
    /\ j >= 1
    /\ j > Len(pages[i].posts)
    /\ PageWrite(pages[i], i, None)
    /\ IF pages[i].output = None THEN Raise("TypeError") ELSE WriteReturns
    /\ UNCHANGED <<pages, navs, files, dirs, found>>

Next ==
    \/ ComputeNavs
    \/ BuildSkeleton
    \/ SinglePageLoad
    \/ CollectionDiscover
    \/ PostPageLoad
    \/ CollectionSortRender
    \/ SinglePageWrite
    \/ CollectionWriteBegin
    \/ PostPageWrite
    \/ CollectionWriteOwn

Spec == Init /\ [][Next]_vars

\* -------------------------------------------------------------- the claims

Tops == 1..Len(pages)

Range(seq) == {seq[n] : n \in 1..Len(seq)}

IsCollection(k) == pages[k].type = "CollectionPage"

\* The log holds the event `op` of the top-level page k (post = None) or of its
\* post named post[1].
Logged(op, k, post) ==
    \E a \in 1..Len(log) : log[a].op = op /\ log[a].top = k /\ log[a].post = post

\* The events `op` of top-level pages, in order.
TopEvents(op) == SelectSeq(log, LAMBDA e : e.op = op /\ e.post = None)

\* A load that was called and raised: it has not returned and is not running.
LoadRaised(a) ==
    /\ log[a].op = "load"
    /\ ~Logged("loaded", log[a].top, log[a].post)
    /\ ~(pc = "load" /\ log[a].post = None /\ log[a].top = i /\ j >= 1)

\* C1: build_site's phases are strictly sequential: the navigation list is
\* computed before any load; load is called on the top-level pages in declared
\* order, and on all of them before write is called on any page; write is then
\* called on the top-level pages in declared order; no load follows a write.
C1_PhasesSequential ==
    LET loads  == TopEvents("load")
        loaded == TopEvents("loaded")
        writes == TopEvents("write")
    IN  /\ log # <<>> => pc \notin {"navs", "skeleton"}
        /\ \A k \in Tops :
              pages[k].output # None => pages[k].output[1].navs = BuildNavs(pages)
        /\ \A k \in 1..Len(loads) : loads[k].top = k
        /\ \A k \in 1..Len(writes) : writes[k].top = k
        /\ (\E a \in 1..Len(log) : log[a].op \in {"write", "emit"})
              => Len(loads) = Len(pages) /\ Len(loaded) = Len(pages)
        /\ \A a \in 1..(Len(log) - 1) :
              log[a].op \in {"write", "emit"} => log[a + 1].op \in {"write", "emit"}
        /\ pc = "done" => Len(writes) = Len(pages)

\* A build of two or more pages, one a collection with posts, has finished.
C1_Witness ==
    /\ pc = "done"
    /\ Len(pages) >= 2
    /\ \E k \in Tops : IsCollection(k) /\ pages[k].posts # <<>>

HasParseableDate(meta) ==
    \E n \in 1..Len(meta) : meta[n][1] = "date" /\ Strptime(meta[n][2]) # None

\* The source of post q was opened and holds no `date` key that parses.
Undated(q) ==
    \E f \in files : f.path = q.src[1] /\ f.exists /\ ~HasParseableDate(f.meta)

\* C2: a collection with at least one post of which some post has no date that
\* parses never gets its rendered output: CollectionPage.load fails.
C2_UndatedPostFailsCollection ==
    \A k \in Tops :
       ( /\ IsCollection(k)
         /\ Len(pages[k].posts) >= 1
         /\ \E n \in 1..Len(pages[k].posts) : Undated(pages[k].posts[n]) )
       => pages[k].output = None /\ ~Logged("loaded", k, None)

Pos(seq, x) == CHOOSE n \in 1..Len(seq) : seq[n] = x

\* C3: once CollectionPage.load has succeeded, the posts handed to the
\* collection template are the discovered posts, each once, by date-time
\* descending, and posts of equal date-time are in discovery order.
C3_SortedStable ==
    \A k \in Tops :
       IsCollection(k) /\ pages[k].output # None =>
         LET ps == pages[k].output[1].posts
         IN  /\ Len(ps) = Len(found[k])
             /\ {ps[n].name : n \in 1..Len(ps)} = Range(found[k])
             /\ [n \in 1..Len(ps) |-> ps[n].name]
                   = [n \in 1..Len(ps) |-> pages[k].posts[n].name]
             /\ Len(ps) >= 2 =>
                  /\ \A n \in 1..Len(ps) : ps[n].datetime # None
                  /\ \A a, b \in 1..Len(ps) :
                        a < b =>
                          /\ ~DtLess(ps[a].datetime, ps[b].datetime)
                          /\ ps[a].datetime = ps[b].datetime
                               => Pos(found[k], ps[a].name) < Pos(found[k], ps[b].name)

\* A loaded collection holds two posts of one date-time, and the sort moved a
\* post.
C3_Witness ==
    \E k \in Tops :
       /\ IsCollection(k)
       /\ pages[k].output # None
       /\ \E a, b \in 1..Len(pages[k].posts) :
             a # b /\ pages[k].posts[a].datetime = pages[k].posts[b].datetime
       /\ [n \in 1..Len(pages[k].posts) |-> pages[k].posts[n].name] # found[k]

\* C4: once computed, the navigation list holds, in declared order, exactly one
\* entry (name, title, type_name) per top-level page that is not hidden and
\* none for a hidden page; a finished build has written every page, hidden or
\* not.
C4_HiddenNotInNavsButWritten ==
    LET shown   == {k \in Tops : ~pages[k].hidden}
        rank(k) == Cardinality({m \in shown : m <= k})
    IN  /\ pc # "navs" =>
             /\ Len(navs) = Cardinality(shown)
             /\ \A k \in shown :
                   navs[rank(k)] = [name |-> pages[k].name, title |-> pages[k].title,
                                    type_name |-> pages[k].type]
        /\ pc = "done" =>
             \A k \in Tops :
                /\ pages[k].target[1] \in out
                /\ \E a \in 1..Len(log) :
                      /\ log[a].op = "emit" /\ log[a].top = k /\ log[a].post = None
                      /\ log[a].path = pages[k].target

\* A finished build of a hidden page after a page that is not hidden.
C4_Witness ==
    /\ pc = "done"
    /\ \E k, m \in Tops : k < m /\ ~pages[k].hidden /\ pages[m].hidden

Unset(p) == p.content = None /\ p.output = None

\* Every call of write on a page follows the return of that page's load.
WriteFollowsLoad ==
    \A a \in 1..Len(log) :
       log[a].op = "write" =>
          \E b \in 1..(a - 1) :
             /\ log[b].op = "loaded"
             /\ log[b].top = log[a].top
             /\ log[b].post = log[a].post

\* C5, as claimed: for a page of any variant, content and output are unset until
\* load is called and both set once it has returned; write is called only on
\* pages whose load has returned.
C5_BothSetAfterLoad ==
    /\ \A k \in Tops :
          /\ ~Logged("load", k, None) => Unset(pages[k])
          /\ Logged("loaded", k, None)
                => pages[k].content # None /\ pages[k].output # None
          /\ \A n \in 1..Len(pages[k].posts) :
                LET q == pages[k].posts[n]
                IN  /\ ~Logged("load", k, Some(q.name)) => Unset(q)
                    /\ Logged("loaded", k, Some(q.name))
                          => q.content # None /\ q.output # None
    /\ WriteFollowsLoad

\* C5, amended: as claimed for SinglePage, FrontPage and PostPage; a
\* CollectionPage whose load has returned has its output set and its content
\* still unset.
C5_OutputSetAfterLoad ==
    /\ \A k \in Tops :
          /\ ~Logged("load", k, None) => Unset(pages[k])
          /\ Logged("loaded", k, None) =>
                /\ pages[k].output # None
                /\ IF IsCollection(k) THEN pages[k].content = None
                   ELSE pages[k].content # None
          /\ \A n \in 1..Len(pages[k].posts) :
                LET q == pages[k].posts[n]
                IN  /\ ~Logged("load", k, Some(q.name)) => Unset(q)
                    /\ Logged("loaded", k, Some(q.name))
                          => q.content # None /\ q.output # None
    /\ WriteFollowsLoad

\* A collection with a post and a page of another variant are loaded and
\* written.
C5_Witness ==
    /\ pc = "done"
    /\ \E k, m \in Tops :
          /\ IsCollection(k)
          /\ pages[k].posts # <<>>
          /\ ~IsCollection(m)

\* C6: CollectionPage.write writes the index.html of every one of its posts
\* before it writes the collection's own.
C6_PostsBeforeIndex ==
    \A a \in 1..Len(log) :
       (log[a].op = "emit" /\ log[a].post = None /\ IsCollection(log[a].top)) =>
          \A n \in 1..Len(pages[log[a].top].posts) :
             \E b \in 1..(a - 1) :
                /\ log[b].op = "emit"
                /\ log[b].top = log[a].top
                /\ log[b].post = Some(pages[log[a].top].posts[n].name)
                /\ log[b].path = pages[log[a].top].posts[n].target

\* A collection with two posts has written its own index.html.
C6_Witness ==
    \E a \in 1..Len(log) :
       /\ log[a].op = "emit"
       /\ log[a].post = None
       /\ IsCollection(log[a].top)
       /\ Len(pages[log[a].top].posts) >= 2

\* C7: if a load raises, the build has failed with no write called, no
\* index.html written and none left in the output; a build that has neither
\* finished nor failed is at a page of the list; a finished build has loaded
\* and written every declared page and every post.
C7_AllOrNothing ==
    /\ (\E a \in 1..Len(log) : LoadRaised(a)) =>
          /\ pc = "failed"
          /\ \A b \in 1..Len(log) : log[b].op \notin {"write", "emit"}
          /\ out = {}
    /\ pc \in {"load", "write"} => i \in Tops /\ error = None
    /\ pc = "done" =>
          \A k \in Tops :
             /\ Logged("loaded", k, None)
             /\ Logged("emit", k, None)
             /\ pages[k].target[1] \in out
             /\ \A n \in 1..Len(pages[k].posts) :
                   /\ Logged("loaded", k, Some(pages[k].posts[n].name))
                   /\ Logged("emit", k, Some(pages[k].posts[n].name))
                   /\ pages[k].posts[n].target[1] \in out

\* The date of a collection's second post did not parse, after an earlier
\* page and the collection's first post were loaded.
C7_Witness ==
    /\ pc = "failed"
    /\ error = Some("ValueError")
    /\ i >= 2
    /\ j = 2
    /\ Logged("loaded", 1, None)

\* C8: once CollectionPage.load has listed the directory, the collection's
\* posts are one PostPage per regular file whose name ends in ".md", named by
\* the file name without its extension and with the collection as parent; other
\* files and sub-directories give no post.
C8_OnePostPerMarkdownFile ==
    \A k \in Tops :
       ( /\ IsCollection(k)
         /\ Logged("load", k, None)
         /\ dirs[pages[k].src[1]].state = "dir" ) =>
         LET md == {e \in dirs[pages[k].src[1]].entries :
                       e.isfile /\ EndsWith(e.fname, MdExt)}
             ps == pages[k].posts
         IN  /\ Len(ps) = Cardinality(md)
             /\ {ps[n].name : n \in 1..Len(ps)} = {SplitExt(e.fname)[1] : e \in md}
             /\ Range(found[k]) = {ps[n].name : n \in 1..Len(ps)}
             /\ \A n \in 1..Len(ps) :
                   /\ ps[n].type = "PostPage"
                   /\ ps[n].parent = Some(k)
                   /\ ps[n].src = Some(pages[k].src[1] \o <<ps[n].name \o MdExt>>)

\* A directory of two Markdown files, a text file and a sub-directory named
\* like a Markdown file has given two posts.
C8_Witness ==
    \E k \in Tops :
       /\ IsCollection(k)
       /\ NoiseFiles \subseteq dirs[pages[k].src[1]].entries
       /\ Cardinality(dirs[pages[k].src[1]].entries) = 4
       /\ Len(pages[k].posts) = 2

\* The target of every page is the one its variant, its name and its parent's
\* name give.
TargetRule ==
    \A k \in Tops :
       /\ pages[k].target =
             CASE pages[k].type = "SinglePage" -> Some(<<pages[k].name>>)
               [] pages[k].type = "CollectionPage" -> Some(<<pages[k].name>>)
               [] pages[k].type = "FrontPage" -> Some(<<>>)
       /\ \A n \in 1..Len(pages[k].posts) :
             LET q == pages[k].posts[n]
             IN  /\ q.uuid = Some(Sha1(q.name))
                 /\ q.target = Some(<<pages[q.parent[1]].name, q.uuid[1]>>)

\* No step changes the target of a page or of a post it keeps.
TargetKept ==
    /\ \A k \in Tops : pages'[k].target = pages[k].target
    /\ \A k \in Tops :
          \A n \in 1..Len(pages[k].posts) :
             \E m \in 1..Len(pages'[k].posts) :
                /\ pages'[k].posts[m].name = pages[k].posts[n].name
                /\ pages'[k].posts[m].target = pages[k].posts[n].target

\* C9: in every state the targets follow the derivation rule (SinglePage and
\* CollectionPage: the name; FrontPage: the output root; PostPage: the
\* parent's name and the digest of the post's name), and no step of load or
\* write changes a target.
C9_TargetRule == []TargetRule /\ [][TargetKept]_vars

\* A front page declared under another name and a post whose metadata changed
\* its title are both written.
C9_Witness ==
    /\ pc = "done"
    /\ \E k \in Tops :
          /\ pages[k].type = "FrontPage"
          /\ pages[k].src # Some(<<pages[k].name \o MdExt>>)
    /\ \E k \in Tops :
          \E n \in 1..Len(pages[k].posts) :
             pages[k].posts[n].title # pages[k].posts[n].name

\* C10: no two writes of an index.html, by top-level pages or posts, go to the
\* same output path.
C10_NoSharedOutputPath ==
    \A a, b \in 1..Len(log) :
       (a < b /\ log[a].op = "emit" /\ log[b].op = "emit")
          => log[a].path # log[b].path

====
